---------------------------- MODULE Spec2Model ----------------------------
(***************************************************************************)
(* A model of the forensic scoring core of the document fraud detection    *)
(* backend: score fusion (services/scoring_engine.py), the layout          *)
(* consistency analyzer (services/layout_analyzer.py), the ELA engine      *)
(* (services/fraud_detector.py), the consistency validator, the endpoints  *)
(* that drive them (main.py: /analyze, /upload, /analyze-batch) and the    *)
(* credit check of /upload (core/security.py).                             *)
(*                                                                         *)
(* Numbers.  The code computes with binary floats.  The model computes     *)
(* with exact decimals and exact fractions:                                *)
(*   - a signal score s is the integer s * 10^5 (0.30004 is 30004);        *)
(*   - a returned percentage p is the integer p * 100 (30.01 is 3001);     *)
(*   - a layout score is a reduced fraction [num, den].                    *)
(* The sampled inputs avoid percentages that end in exactly ...5 at the    *)
(* third decimal, where round() of a binary float depends on the           *)
(* representation error of the float rather than on the decimal value.     *)
(***************************************************************************)
EXTENDS Integers, Sequences, FiniteSets, TLC

VARIABLES
    \* ---- score fusion (scoring_engine.py) ----
    ela_score,          \* ELA score passed to the call, in 10^-5
    layout_score,       \* layout score passed to the call, in 10^-5
    dl_score,           \* DL score of the caller: [none, v], v in 10^-5
    fuse_out,           \* outcome of the last call of calculate_final_score
    \* ---- layout analyzer (layout_analyzer.py) ----
    ocr_results,        \* the argument: [none, items], items a sequence of tokens
    layout_out,         \* outcome of the last call of analyze_spatial_consistency
    \* ---- POST /analyze-batch (main.py, analyze_batch) ----
    files,              \* the uploaded files, in submission order
    file_idx,           \* the index of the file the loop handles next
    results,            \* the list `results`
    extracted_docs_data,\* the list `extracted_docs_data`
    batch_log,          \* what happened to each file handled so far
    kyc_calls,          \* the calls of kyc_validator.validate made so far
    batch_response,     \* the response of the request, once it is sent
    \* ---- the consistency validator (kyc_validator.validate) ----
    entities_a,         \* the entity set of the first document
    entities_b,         \* the entity set of the second document
    validation_ab,      \* outcome of validate(entities_a, entities_b)
    validation_ba,      \* outcome of validate(entities_b, entities_a)
    \* ---- the ELA engine (fraud_detector.py, calculate_ela) ----
    ela_pc,             \* per worker: the statement its call executes next
    ela_handle,         \* per worker: the scratch file it has open
    ela_out,            \* per worker: the outcome of its call
    fs_path,            \* the inode the path "temp_ela.jpg" names, 0 if none
    fs_inodes,          \* the content of every inode created so far
    \* ---- POST /analyze and POST /upload (main.py, core/security.py) ----
    requests,           \* per request: its input, its position, its response
    credits_remaining,  \* ClientCompany.credits_remaining of Test Corp, in the database
    credits_initial,    \* the balance of Test Corp before the first request
    scan_records        \* the ScanRecord rows, in the order of their commit

fusion_vars == <<ela_score, layout_score, dl_score, fuse_out>>

layout_vars == <<ocr_results, layout_out>>

batch_vars == <<files, file_idx, results, extracted_docs_data, batch_log,
                kyc_calls, batch_response>>

kyc_vars == <<entities_a, entities_b, validation_ab, validation_ba>>

ela_vars == <<ela_pc, ela_handle, ela_out, fs_path, fs_inodes>>

api_vars == <<requests, credits_remaining, credits_initial, scan_records>>

\* Everything but fusion, layout and the batch endpoint.
rest_vars == <<kyc_vars, ela_vars, api_vars>>

\* Everything but the validator, but the ELA engine, and but the
\* single-document endpoints.
non_kyc_vars == <<fusion_vars, layout_vars, batch_vars, ela_vars, api_vars>>

non_ela_vars == <<fusion_vars, layout_vars, batch_vars, kyc_vars, api_vars>>

non_api_vars == <<fusion_vars, layout_vars, batch_vars, kyc_vars, ela_vars>>

vars == <<ela_score, layout_score, dl_score, fuse_out, ocr_results, layout_out,
          files, file_idx, results, extracted_docs_data, batch_log,
          kyc_calls, batch_response, rest_vars>>

---------------------------------------------------------------------------
(* Python values *)

\* An optional float: None, or a float v (in 10^-5).
PyNone == [none |-> TRUE, v |-> 0]

PyFloat(x) == [none |-> FALSE, v |-> x]

Abs(x) == IF x < 0 THEN -x ELSE x

RECURSIVE GCD(_, _)
GCD(a, b) == IF b = 0 THEN a ELSE GCD(b, a % b)

\* The exact value n/d (d > 0) of a float, as a reduced fraction.
Frac(n, d) ==
    LET g == GCD(Abs(n), d)
    IN  [num |-> n \div g, den |-> d \div g]

FracAdd(a, b) == Frac(a.num * b.den + b.num * a.den, a.den * b.den)

FracLE(a, b) == a.num * b.den <= b.num * a.den

\* min(a, b) and max(a, b) of two floats.
FracMin(a, b) == IF FracLE(a, b) THEN a ELSE b

FracMax(a, b) == IF FracLE(a, b) THEN b ELSE a

Zero == Frac(0, 1)

Half == Frac(1, 2)

One == Frac(1, 1)

RECURSIVE SumSeq(_)
SumSeq(s) == IF s = <<>> THEN 0 ELSE Head(s) + SumSeq(Tail(s))

RECURSIVE SumSquares(_)
SumSquares(s) == IF s = <<>> THEN 0 ELSE Head(s) * Head(s) + SumSquares(Tail(s))

\* round(x, 2) of a percentage given in 10^-4 (x = pct * 10^4), as hundredths:
\* the nearest hundredth, a half going to the even neighbour.  \div is the
\* floor division and % the non-negative remainder, also for negative x.
Round2(x) ==
    LET q == x \div 100
        r == x % 100
    IN  IF r < 50 THEN q
        ELSE IF r > 50 THEN q + 1
        ELSE IF q % 2 = 0 THEN q ELSE q + 1

\* No batch request: the state of the batch endpoint while a function is
\* exercised on its own.
NoValidation == [consistency_score |-> 0, mismatches |-> <<>>, is_valid |-> FALSE]

NoResponse == [status |-> 0, results |-> <<>>, kyc_validation |-> NoValidation]

\* A call of kyc_validator.validate that has not been made, and one that
\* returned the Validation Result v.
NotValidated == [status |-> "none", value |-> NoValidation]

Validated(v) == [status |-> "returned", value |-> v]

NoEntities == <<>>

\* No call of the validator on its own.
KycIdle ==
    /\ entities_a = NoEntities
    /\ entities_b = NoEntities
    /\ validation_ab = NotValidated
    /\ validation_ba = NotValidated

\* The concurrent calls of calculate_ela the model follows.
NumWorkers == 2

Workers == 1..NumWorkers

NoHandle == [inode |-> 0, header |-> 0]

NoEla == [status |-> "none", error |-> "", original |-> 0, resaved |-> 0]

\* No call of calculate_ela, and no scratch file.
ElaIdle ==
    /\ ela_pc = [w \in Workers |-> "idle"]
    /\ ela_handle = [w \in Workers |-> NoHandle]
    /\ ela_out = [w \in Workers |-> NoEla]
    /\ fs_path = 0
    /\ fs_inodes = <<>>

\* No request to /analyze or /upload.
ApiIdle ==
    /\ requests = <<>>
    /\ credits_remaining = 0
    /\ credits_initial = 0
    /\ scan_records = <<>>

\* The state of everything but fusion, layout and the batch endpoint while
\* one of these is exercised.
RestIdle == KycIdle /\ ElaIdle /\ ApiIdle

BatchIdle ==
    /\ files = <<>>
    /\ file_idx = 0
    /\ results = <<>>
    /\ extracted_docs_data = <<>>
    /\ batch_log = <<>>
    /\ kyc_calls = <<>>
    /\ batch_response = NoResponse

---------------------------------------------------------------------------
(* services/scoring_engine.py *)

\* W_ELA = 0.6 and W_LAYOUT = 0.4, in tenths.
W_ELA == 6

W_LAYOUT == 4

NoCall == [status |-> "none", final |-> 0, classification |-> "", error |-> "", nargs |-> 0]

Returned(final, classification, n) ==
    [status |-> "returned", final |-> final, classification |-> classification,
     error |-> "", nargs |-> n]

Raised(error, n) ==
    [status |-> "raised", final |-> 0, classification |-> "", error |-> error, nargs |-> n]

\* Mutant of calculate_final_score: the two weights exchanged.
calculate_final_score_swapped(ela, layout) ==
    LET final_score_pct == (ela * W_LAYOUT) + (layout * W_ELA)
        classification ==
            IF final_score_pct > 70 * 10000 THEN "Highly Forged"
            ELSE IF final_score_pct > 30 * 10000 THEN "Suspicious"
            ELSE "Authentic"
    IN  Returned(Round2(final_score_pct), classification, 2)

\* The body of calculate_final_score.  final_score_pct is held in 10^-4
\* (ela in 10^-5 times a weight in tenths, times 100); the thresholds 70 and
\* 30 are applied to the unrounded percentage, the rounded one is returned.
calculate_final_score(ela, layout) ==
    LET final_score_pct == (ela * W_ELA) + (layout * W_LAYOUT)
        classification ==
            IF final_score_pct > 70 * 10000 THEN "Highly Forged"
            ELSE IF final_score_pct > 30 * 10000 THEN "Suspicious"
            ELSE "Authentic"
    IN  Returned(Round2(final_score_pct), classification, 2)

\* A call of calculate_final_score with the positional arguments args (a
\* sequence of optional floats).  The function is defined with two
\* parameters: any other number of arguments raises TypeError before the
\* body runs, and so does None in an arithmetic operand.
Call_calculate_final_score(args) ==
    IF Len(args) # 2 THEN Raised("TypeError", Len(args))
    ELSE IF args[1].none \/ args[2].none THEN Raised("TypeError", Len(args))
    ELSE calculate_final_score(args[1].v, args[2].v)

---------------------------------------------------------------------------
(* services/layout_analyzer.py *)

NoAnalysis ==
    [status |-> "none", score |-> Zero, jitter_contribution |-> Zero,
     spacing_contribution |-> Zero, evaluated |-> FALSE, error |-> ""]

\* list.sort() of a list of numbers: ascending, by insertion.
RECURSIVE Insert(_, _)
Insert(x, s) ==
    IF s = <<>> THEN <<x>>
    ELSE IF x <= Head(s) THEN <<x>> \o s
    ELSE <<Head(s)>> \o Insert(x, Tail(s))

RECURSIVE SortedList_sort(_)
SortedList_sort(s) == IF s = <<>> THEN <<>> ELSE Insert(Head(s), SortedList_sort(Tail(s)))

\* Mutant of SortedList: the sort left out.
SortedList_unsorted(s) == s

SortedList(s) == SortedList_sort(s)

\* np.diff: the consecutive differences s[i+1] - s[i].
Diff(s) == [i \in 1..(Len(s) - 1) |-> s[i + 1] - s[i]]

\* Line 12, `if not ocr_results or len(ocr_results) < 2: return 0.0`:
\* "return" for None, for the empty list and for a single token.
\* Mutant: only len(ocr_results) < 2 is tested, and len(None) raises.
TooFewTokens_len_only(ocr) ==
    IF ocr.none THEN "TypeError"
    ELSE IF Len(ocr.items) < 2 THEN "return" ELSE "continue"

TooFewTokens(ocr) ==
    IF ocr.none \/ Len(ocr.items) = 0 THEN "return"
    ELSE IF Len(ocr.items) < 2 THEN "return" ELSE "continue"

\* Lines 19-28: the left-x of every box (the x of its first point), sorted;
\* jitter is the mean of the consecutive differences d with 0 < d < 15, or 0
\* when there is none; the contribution is min(jitter / 10.0, 0.5).
x_coords(items) == [i \in 1..Len(items) |-> items[i].bounding_box[1][1]]

\* Mutant of SmallDiffs: a difference of exactly 15 is taken too.
SmallDiffs_upto15(diffs) == SelectSeq(diffs, LAMBDA d : 0 < d /\ d <= 15)

SmallDiffs(diffs) == SelectSeq(diffs, LAMBDA d : 0 < d /\ d < 15)

\* Mutant of jitter_contribution: the cap min(..., 0.5) left out.
jitter_contribution_uncapped(diffs) ==
    LET small == SmallDiffs(diffs)
    IN  IF small = <<>> THEN Zero ELSE Frac(SumSeq(small), 10 * Len(small))

jitter_contribution(diffs) ==
    LET small == SmallDiffs(diffs)
        jitter_by_10 == IF small = <<>> THEN Zero
                        ELSE Frac(SumSeq(small), 10 * Len(small))
    IN  FracMin(jitter_by_10, Half)

\* Lines 32-40: the vertical centre of every box (the mean of the y of its
\* four points), sorted.  The model holds four times the centre, the sum of
\* the four y, so the differences are in quarters and their variance in
\* sixteenths.  np.var is the population variance, (n*sum(d^2) - sum(d)^2)/n^2.
y_centers_by_4(items) ==
    [i \in 1..Len(items) |->
        items[i].bounding_box[1][2] + items[i].bounding_box[2][2]
        + items[i].bounding_box[3][2] + items[i].bounding_box[4][2]]

\* Mutant of spacing_contribution: the sample variance (divisor n - 1)
\* instead of the population variance of np.var.
spacing_contribution_sample_variance(y_diffs) ==
    IF Len(y_diffs) > 1
    THEN LET n == Len(y_diffs)
             spacing_variance ==
                Frac(n * SumSquares(y_diffs) - SumSeq(y_diffs) * SumSeq(y_diffs),
                     n * (n - 1) * 16)
         IN  FracMin(Frac(spacing_variance.num, spacing_variance.den * 5000), Half)
    ELSE Zero

spacing_contribution(y_diffs) ==
    IF Len(y_diffs) > 1
    THEN LET n == Len(y_diffs)
             spacing_variance ==
                Frac(n * SumSquares(y_diffs) - SumSeq(y_diffs) * SumSeq(y_diffs),
                     n * n * 16)
         IN  FracMin(Frac(spacing_variance.num, spacing_variance.den * 5000), Half)
    ELSE Zero

\* What a call leaves in the list it was passed.  x_coords and y_centers
\* are new lists built by the comprehensions of lines 19 and 32, and
\* x_coords.sort() and y_centers.sort() (lines 23, 33) sort those; no
\* statement assigns to ocr_results or to one of its items.
RECURSIVE InsertByLeftX(_, _)
InsertByLeftX(t, s) ==
    IF s = <<>> THEN <<t>>
    ELSE IF t.bounding_box[1][1] <= Head(s).bounding_box[1][1] THEN <<t>> \o s
    ELSE <<Head(s)>> \o InsertByLeftX(t, Tail(s))

RECURSIVE SortByLeftX(_)
SortByLeftX(s) == IF s = <<>> THEN <<>> ELSE InsertByLeftX(Head(s), SortByLeftX(Tail(s)))

\* Mutant of TokensAfterAnalysis: the tokens themselves sorted in place,
\* ocr_results.sort(key=left x), instead of a list of their coordinates.
TokensAfterAnalysis_sorted_in_place(ocr) ==
    IF ocr.none THEN ocr ELSE [ocr EXCEPT !.items = SortByLeftX(ocr.items)]

TokensAfterAnalysis(ocr) == ocr

\* analyze_spatial_consistency(ocr_results): the value returned.
analyze_spatial_consistency(ocr) ==
    LET guard == TooFewTokens(ocr)
    IN  IF guard = "TypeError"
        THEN [NoAnalysis EXCEPT !.status = "raised", !.error = "TypeError"]
        ELSE IF guard = "return"
        THEN [NoAnalysis EXCEPT !.status = "returned"]
        ELSE LET diffs == Diff(SortedList(x_coords(ocr.items)))
                 jc == jitter_contribution(diffs)
                 y_diffs == Diff(SortedList(y_centers_by_4(ocr.items)))
                 sc == spacing_contribution(y_diffs)
                 anomaly_score == FracAdd(jc, sc)
             IN  [status |-> "returned",
                  score |-> FracMin(FracMax(anomaly_score, Zero), One),
                  jitter_contribution |-> jc,
                  spacing_contribution |-> sc,
                  evaluated |-> TRUE,
                  error |-> ""]

---------------------------------------------------------------------------
(* Score fusion called on sampled scores *)

\* Signal scores in 10^-5: negative, zero, around both thresholds, above 1.
ScoreSamples ==
    {-10000, 0, 29996, 30000, 30004, 50000, 69996, 70000, 70004, 100000, 200000}

DLSamples == {PyNone, PyFloat(0), PyFloat(50000)}

InitFusion ==
    /\ ela_score \in ScoreSamples
    /\ layout_score \in ScoreSamples
    /\ dl_score \in DLSamples
    /\ fuse_out = NoCall
    /\ ocr_results = [none |-> TRUE, items |-> <<>>]
    /\ layout_out = NoAnalysis
    /\ BatchIdle
    /\ RestIdle

\* calculate_final_score(ela_score, layout_score): the two-signal call.
FuseTwoSignal ==
    /\ fuse_out.status = "none"
    /\ fuse_out' = Call_calculate_final_score(<<PyFloat(ela_score), PyFloat(layout_score)>>)
    /\ UNCHANGED <<ela_score, layout_score, dl_score, layout_vars, batch_vars, rest_vars>>

\* calculate_final_score(ela_score, layout_score, dl_score): the call of
\* main.py, lines 124, 192 and 278.
FuseThreeSignal ==
    /\ fuse_out.status = "none"
    /\ fuse_out' = Call_calculate_final_score(
                        <<PyFloat(ela_score), PyFloat(layout_score), dl_score>>)
    /\ UNCHANGED <<ela_score, layout_score, dl_score, layout_vars, batch_vars, rest_vars>>

NextFusion == FuseTwoSignal \/ FuseThreeSignal

SpecFusion == InitFusion /\ [][NextFusion]_vars

---------------------------------------------------------------------------
(* Claims about score fusion, checked under SpecFusion *)

TwoSignalReturned == fuse_out.status = "returned" /\ fuse_out.nargs = 2

\* C1: in two-signal mode the returned percentage is
\* round((ela*0.6 + layout*0.4) * 100, 2), the hundredth nearest to the
\* weighted sum, for every pair of scores, and the call always returns;
\* (0,0) gives (0.0, Authentic), (1,1) gives (100.0, Highly Forged) and
\* (0.5,0.5) gives (50.0, Suspicious).
C1_TwoSignalPercentage ==
    /\ fuse_out.nargs = 2 => fuse_out.status = "returned"
    /\ TwoSignalReturned =>
        LET pct == 6 * ela_score + 4 * layout_score     \* percentage * 10^4
        IN  /\ 2 * Abs(100 * fuse_out.final - pct) <= 100
            /\ (ela_score = 0 /\ layout_score = 0) =>
                    (fuse_out.final = 0 /\ fuse_out.classification = "Authentic")
            /\ (ela_score = 100000 /\ layout_score = 100000) =>
                    (fuse_out.final = 10000 /\ fuse_out.classification = "Highly Forged")
            /\ (ela_score = 50000 /\ layout_score = 50000) =>
                    (fuse_out.final = 5000 /\ fuse_out.classification = "Suspicious")

\* C1 witness: the two-signal call on unequal scores (0.7, 0.3) has returned
\* 54.0, the 0.6/0.4 weighting of the two.
C1_Witness ==
    /\ TwoSignalReturned
    /\ ela_score = 70000 /\ layout_score = 30000
    /\ fuse_out.final = 5400 /\ fuse_out.classification = "Suspicious"

\* C2 (as claimed): the classification of every returned result is decided by
\* the returned percentage alone: Authentic iff it is <= 30, Suspicious iff it
\* is > 30 and <= 70, Highly Forged iff it is > 70.
C2_ClassifiedByReturnedPercentage ==
    TwoSignalReturned =>
        /\ fuse_out.classification = "Authentic" <=> fuse_out.final <= 3000
        /\ fuse_out.classification = "Suspicious" <=>
                (fuse_out.final > 3000 /\ fuse_out.final <= 7000)
        /\ fuse_out.classification = "Highly Forged" <=> fuse_out.final > 7000

\* C3 (as claimed): a call of score fusion with an ELA score, a layout score
\* and a DL score (or None in its place) returns a percentage and a
\* classification instead of failing.
C3_ThreeSignalCallReturns ==
    fuse_out.nargs = 3 => fuse_out.status = "returned"

\* C4 (as claimed): the returned percentage is within [0, 100] for every
\* input, also for an ELA score above 1 and for negative scores.
C4_PercentageWithin0And100 ==
    TwoSignalReturned => (fuse_out.final >= 0 /\ fuse_out.final <= 10000)

---------------------------------------------------------------------------
(* The layout analyzer called on sampled OCR output *)

\* The largest number of OCR tokens of a sampled page.
MaxTokens == 3

\* An OCR token as ocr_service.extract_text builds it; the box is the
\* quadrilateral (x, y), (x+30, y+skew), (x+30, y+9+skew), (x, y+9).
Token(x, y, skew) ==
    [text |-> "w", confidence |-> 1,
     bounding_box |-> << <<x, y>>, <<x + 30, y + skew>>,
                         <<x + 30, y + 9 + skew>>, <<x, y + 9>> >>]

\* Left edges 3, 12, 15, 28, 40 and 43 apart (and 0 for equal ones), lines 10
\* and 120 apart, negative coordinates, and one column of slanted boxes.
TokenSamples ==
    {Token(x, y, 0) : x \in {-3, 0, 12}, y \in {-6, 4, 124}}
        \cup {Token(40, y, 1) : y \in {-6, 4, 124}}

OcrSamples ==
    {[none |-> TRUE, items |-> <<>>]}
        \cup {[none |-> FALSE, items |-> t] :
                t \in UNION {[1..n -> TokenSamples] : n \in 0..MaxTokens}}

InitLayout ==
    /\ ocr_results \in OcrSamples
    /\ layout_out = NoAnalysis
    /\ ela_score = 0 /\ layout_score = 0 /\ dl_score = PyNone /\ fuse_out = NoCall
    /\ BatchIdle
    /\ RestIdle

\* layout_analyzer.analyze_spatial_consistency(ocr_results).
AnalyzeLayout ==
    /\ layout_out.status = "none"
    /\ layout_out' = analyze_spatial_consistency(ocr_results)
    /\ ocr_results' = TokensAfterAnalysis(ocr_results)
    /\ UNCHANGED <<fusion_vars, batch_vars, rest_vars>>

Swap(s, i) == [s EXCEPT ![i] = s[i + 1], ![i + 1] = s[i]]

\* The analyzer called again on the same tokens in another order (two
\* neighbours exchanged; every order is reached by such exchanges).
AnalyzeReordered ==
    /\ layout_out.status = "returned"
    /\ \E i \in 1..(Len(ocr_results.items) - 1) :
        /\ ocr_results.items[i] # ocr_results.items[i + 1]
        /\ LET reordered == [ocr_results EXCEPT !.items = Swap(ocr_results.items, i)]
           IN  /\ layout_out' = analyze_spatial_consistency(reordered)
               /\ ocr_results' = TokensAfterAnalysis(reordered)
    /\ UNCHANGED <<fusion_vars, batch_vars, rest_vars>>

NextLayout == AnalyzeLayout \/ AnalyzeReordered

SpecLayout == InitLayout /\ [][NextLayout]_vars

---------------------------------------------------------------------------
(* Claims about the layout analyzer, checked under SpecLayout *)

NumTokens == IF ocr_results.none THEN 0 ELSE Len(ocr_results.items)

\* C6: given 0 or 1 OCR tokens (None and the empty sequence included) the
\* analyzer returns exactly 0.0, and returns it before jitter or spacing is
\* evaluated.
C6_FewTokensScoreZero ==
    (layout_out.status # "none" /\ NumTokens < 2) =>
        /\ layout_out.status = "returned"
        /\ layout_out.score = Zero
        /\ ~layout_out.evaluated

\* C6 witness: the analyzer has returned 0.0 for a single token.
C6_Witness ==
    /\ layout_out.status = "returned"
    /\ NumTokens = 1
    /\ layout_out.score = Zero

\* C7: the score does not depend on the order of the tokens: the analyzer
\* called on a reordering of the tokens it was just called on returns the
\* same score.
C7_OrderInvariant ==
    [][(layout_out.status = "returned" /\ layout_out'.status = "returned")
            => layout_out'.score = layout_out.score]_vars

\* C7 witness: the analyzer has returned a non-zero score for three tokens
\* whose left edges are not in ascending order.
C7_Witness ==
    /\ layout_out.status = "returned"
    /\ NumTokens = 3
    /\ x_coords(ocr_results.items)[1] > x_coords(ocr_results.items)[2]
    /\ x_coords(ocr_results.items)[2] < x_coords(ocr_results.items)[3]
    /\ layout_out.score # Zero

\* C8: the score is clamp(jitter contribution + spacing contribution, 0, 1),
\* each contribution lies within [0, 0.5], and so the score lies within
\* [0, 1], also for negative coordinates and unordered left edges.
C8_ScoreIsClampedSum ==
    layout_out.status = "returned" =>
        LET j == layout_out.jitter_contribution
            s == layout_out.spacing_contribution
            sum == FracAdd(j, s)
        IN  /\ FracLE(Zero, j) /\ FracLE(j, Half)
            /\ FracLE(Zero, s) /\ FracLE(s, Half)
            /\ layout_out.score =
                    (IF FracLE(sum, Zero) THEN Zero
                     ELSE IF FracLE(One, sum) THEN One ELSE sum)
            /\ FracLE(Zero, layout_out.score) /\ FracLE(layout_out.score, One)

\* C8 witness: both contributions are at their cap of 0.5 and the score is
\* 1.0, for tokens with a negative left edge.
C8_Witness ==
    /\ layout_out.status = "returned"
    /\ layout_out.jitter_contribution = Half
    /\ layout_out.spacing_contribution = Half
    /\ layout_out.score = One
    /\ \E i \in 1..NumTokens : x_coords(ocr_results.items)[i] < 0

\* The ascending arrangement of a sequence of numbers, stated without the
\* sort of the model: the ordered sequence with the same members, each as
\* often.
Ascending(seq) ==
    LET n == Len(seq)
        members == {seq[i] : i \in 1..n}
    IN  CHOOSE s \in [1..n -> members] :
            /\ \A i \in 1..n : \A j \in i..n : s[i] <= s[j]
            /\ \A v \in members :
                Cardinality({i \in 1..n : s[i] = v})
                    = Cardinality({i \in 1..n : seq[i] = v})

RECURSIVE SumOver(_, _)
SumOver(f, idx) ==
    IF idx = {} THEN 0
    ELSE LET i == CHOOSE k \in idx : TRUE IN f[i] + SumOver(f, idx \ {i})

\* C15: the analyzer only reads its tokens: when a call returns (or raises),
\* the sequence it was passed holds the same tokens, in the same order, with
\* the same boxes.
C15_TokensReadOnly ==
    [][(layout_out.status = "none" /\ layout_out'.status # "none")
            => ocr_results' = ocr_results]_vars

\* C15 witness: the analyzer has returned a score for three tokens whose
\* left edges are in descending order, and they are still in that order.
C15_Witness ==
    /\ layout_out.status = "returned" /\ layout_out.evaluated
    /\ NumTokens = 3
    /\ x_coords(ocr_results.items)[1] > x_coords(ocr_results.items)[2]
    /\ x_coords(ocr_results.items)[2] > x_coords(ocr_results.items)[3]

\* C17: the jitter contribution is min(mean(D)/10, 0.5), D being the
\* consecutive differences of the ascending left-x that are > 0 and < 15
\* (0, 15 and more are left out), and exactly 0 when D is empty.
C17_JitterContribution ==
    (layout_out.status = "returned" /\ layout_out.evaluated) =>
        LET xs == Ascending(x_coords(ocr_results.items))
            D == {i \in 1..(Len(xs) - 1) : xs[i + 1] - xs[i] > 0 /\ xs[i + 1] - xs[i] < 15}
            total == SumOver([i \in D |-> xs[i + 1] - xs[i]], D)
        IN  layout_out.jitter_contribution =
                (IF D = {} THEN Zero
                 ELSE IF 2 * total >= 10 * Cardinality(D) THEN Half
                 ELSE Frac(total, 10 * Cardinality(D)))

\* C17 witness: left edges -3, 12 and 12 give the differences 15 and 0, both
\* left out, so D is empty and the contribution is exactly 0.
C17_Witness ==
    /\ layout_out.status = "returned" /\ layout_out.evaluated
    /\ Ascending(x_coords(ocr_results.items)) = <<-3, 12, 12>>
    /\ layout_out.jitter_contribution = Zero

\* C18: the spacing contribution is min(variance/5000, 0.5) of the
\* consecutive differences of the ascending vertical centres when there are
\* at least two differences (three tokens or more); it is 0 for exactly two
\* tokens, and 0 for tokens that share one vertical centre, whose score is
\* then the jitter contribution alone.  The variance is the mean squared
\* deviation from the mean; centres are held times four, so it is times 16.
C18_SpacingContribution ==
    (layout_out.status = "returned" /\ layout_out.evaluated) =>
        LET ys == Ascending(y_centers_by_4(ocr_results.items))
            n == Len(ys) - 1
            d == [i \in 1..n |-> ys[i + 1] - ys[i]]
            total == SumOver(d, 1..n)
            \* sum of (n*d[i] - total)^2 = n^3 * variance * 16
            dev2 == SumOver([i \in 1..n |-> (n * d[i] - total) * (n * d[i] - total)], 1..n)
            expected == LET v == Frac(dev2, n * n * n * 16 * 5000)
                        IN  IF FracLE(Half, v) THEN Half ELSE v
        IN  /\ NumTokens = 2 => layout_out.spacing_contribution = Zero
            /\ NumTokens >= 3 => layout_out.spacing_contribution = expected
            /\ (\A i \in 1..n : d[i] = 0) =>
                    /\ layout_out.spacing_contribution = Zero
                    /\ layout_out.score = layout_out.jitter_contribution

\* C18 witness: three tokens on lines 10 and 120 apart, whose spacing
\* contribution is at its cap of 0.5 (variance 3025).
C18_Witness ==
    /\ layout_out.status = "returned" /\ layout_out.evaluated
    /\ NumTokens = 3
    /\ Ascending(y_centers_by_4(ocr_results.items)) = <<-6, 34, 514>>
    /\ layout_out.spacing_contribution = Half

---------------------------------------------------------------------------
(* Collaborators of main.py that are not among the source files: the entity *)
(* extractor, the KYC validator, the DL detector and the PDF processor.     *)

\* A string (its characters) or null.
Str(chars) == [none |-> FALSE, s |-> chars]

NullStr == [none |-> TRUE, s |-> <<>>]

Min2(a, b) == IF a <= b THEN a ELSE b

Max2(a, b) == IF a >= b THEN a ELSE b

\* The edit distance of two character sequences.
RECURSIVE Levenshtein(_, _)
Levenshtein(s, t) ==
    IF s = <<>> THEN Len(t)
    ELSE IF t = <<>> THEN Len(s)
    ELSE IF Head(s) = Head(t) THEN Levenshtein(Tail(s), Tail(t))
    ELSE 1 + Min2(Levenshtein(Tail(s), Tail(t)),
                  Min2(Levenshtein(Tail(s), t), Levenshtein(s, Tail(t))))

UpperCase == <<"A", "B", "N", "R", "S">>

LowerCase == <<"a", "b", "n", "r", "s">>

\* The lower-case form of a character.
Lower(c) ==
    IF \E i \in 1..Len(UpperCase) : UpperCase[i] = c
    THEN LowerCase[CHOOSE i \in 1..Len(UpperCase) : UpperCase[i] = c]
    ELSE c

\* Whitespace normalisation: leading and trailing blanks are dropped and a
\* run of blanks becomes one blank.
RECURSIVE CollapseBlanks(_, _)
CollapseBlanks(s, after_blank) ==
    IF s = <<>> THEN <<>>
    ELSE IF Head(s) = " "
         THEN IF after_blank \/ \A i \in 1..Len(s) : s[i] = " "
              THEN CollapseBlanks(Tail(s), TRUE)
              ELSE <<" ">> \o CollapseBlanks(Tail(s), TRUE)
         ELSE <<Head(s)>> \o CollapseBlanks(Tail(s), FALSE)

\* The case-insensitive, whitespace-normalised form of a string.
Normalize(s) == CollapseBlanks([i \in 1..Len(s) |-> Lower(s[i])], TRUE)

\* Mutant of Similar: the edit distance is normalised by the length of the
\* first string.
Similar_by_first_length(s, t) ==
    LET a == Normalize(s)
        b == Normalize(t)
    IN  100 * (Len(a) - Levenshtein(a, b)) >= 80 * Len(a)

\* Normalized edit similarity of at least 80% of the normalised strings.
Similar(s, t) ==
    LET a == Normalize(s)
        b == Normalize(t)
        n == Max2(Len(a), Len(b))
    IN  100 * (n - Levenshtein(a, b)) >= 80 * n

EntityFields == <<"person_name", "address", "date">>

\* kyc_validator.validate(a, b): the fields that are non-null on both sides
\* are compared; consistency_score is the percentage of them that are
\* similar, mismatches names the others; no comparable field gives score 0
\* and a note of insufficient data.
kyc_validate(a, b) ==
    LET comparable == SelectSeq(EntityFields, LAMBDA f : ~a[f].none /\ ~b[f].none)
        differing == SelectSeq(comparable, LAMBDA f : ~Similar(a[f].s, b[f].s))
    IN  IF comparable = <<>>
        THEN [consistency_score |-> 0, mismatches |-> <<"insufficient data">>,
              is_valid |-> FALSE]
        ELSE [consistency_score |->
                    (100 * (Len(comparable) - Len(differing))) \div Len(comparable),
              mismatches |-> differing,
              is_valid |-> differing = <<>>]

\* What entity_extractor.extract may return.
EntitySamples ==
    {[person_name |-> Str(<<"a", "n", "n", "a">>), address |-> Str(<<"1", "r", "d">>),
      date |-> NullStr],
     [person_name |-> Str(<<"a", "n", "a">>), address |-> Str(<<"9", "s", "t">>),
      date |-> Str(<<"1", "2">>)]}

\* pdf_metadata: None for an image, else the PDFMetadata of the PDF.
NoMetadata == [none |-> TRUE, is_suspicious |-> FALSE]

PDFMetadata(flag) == [none |-> FALSE, is_suspicious |-> flag]

---------------------------------------------------------------------------
(* main.py: POST /analyze-batch *)

SupportedExtensions == {".jpg", ".jpeg", ".png", ".pdf"}

\* What the collaborators do for one document, up to the fusion call:
\* extract_metadata and convert_to_images (PDF only), extract_text,
\* calculate_ela and sliding_window_inference.  Scores are in 10^-5.
PagesOutcomes == {"raise", "empty", "pages"}

MetadataOutcomes ==
    {[raised |-> TRUE, value |-> NoMetadata],
     [raised |-> FALSE, value |-> PDFMetadata(TRUE)],
     [raised |-> FALSE, value |-> PDFMetadata(FALSE)]}

OcrOutcomes ==
    {[raised |-> TRUE, value |-> [none |-> FALSE, items |-> <<>>]],
     [raised |-> FALSE,
      value |-> [none |-> FALSE, items |-> <<Token(0, 4, 0), Token(12, 124, 0)>>]]}

ScoreOutcomes(low, high) ==
    {[raised |-> TRUE, value |-> 0],
     [raised |-> FALSE, value |-> low],
     [raised |-> FALSE, value |-> high]}

Outcomes(file) ==
    [metadata : IF file.extension = ".pdf" THEN MetadataOutcomes
                ELSE {[raised |-> FALSE, value |-> NoMetadata]},
     pages    : IF file.extension = ".pdf" THEN PagesOutcomes ELSE {"pages"},
     ocr      : OcrOutcomes,
     ela      : ScoreOutcomes(10000, 150000),
     dl       : ScoreOutcomes(10000, 90000)]

\* What the collaborators do after the fusion call: entity_extractor.extract
\* and dl_detector.generate_explanation.
LaterOutcomes ==
    [entities    : {[raised |-> TRUE, value |-> e] : e \in EntitySamples}
                    \cup {[raised |-> FALSE, value |-> e] : e \in EntitySamples},
     explanation : {"raise", "image"}]

\* A float score (a fraction) in 10^-5, the unit of the fusion model.
ToScore(f) == (f.num * 100000) \div f.den

\* round(float(x), 4) of a score in 10^-5, in 10^-4.
Round4(x) ==
    LET q == x \div 10
        r == x % 10
    IN  IF r < 5 THEN q
        ELSE IF r > 5 THEN q + 1
        ELSE IF q % 2 = 0 THEN q ELSE q + 1

Analysis(raised, step, error, metadata, ocr, layout, ela, dl, fused) ==
    [raised |-> raised, step |-> step, error |-> error, pdf_metadata |-> metadata,
     ocr_results |-> ocr, layout_score |-> layout, ela_score |-> ela,
     dl_score |-> dl, final_score |-> fused.final,
     classification |-> fused.classification]

Failed(step, error) ==
    Analysis(TRUE, step, error, NoMetadata, [none |-> FALSE, items |-> <<>>],
             0, 0, 0, NoCall)

\* Lines 256-278, the try block up to and including the fusion call, for a
\* file with a supported extension.  When convert_to_images returns no page
\* processing_path stays the PDF itself, which PIL's Image.open (the first
\* statement of calculate_ela) cannot identify.
VisualAnalysis(file, o) ==
    LET is_pdf == file.extension = ".pdf"
        path_is_image == ~is_pdf \/ o.pages = "pages"
        layout == ToScore(analyze_spatial_consistency(o.ocr.value).score)
        fused == Call_calculate_final_score(
                    <<PyFloat(o.ela.value), PyFloat(layout), PyFloat(o.dl.value)>>)
    IN  IF is_pdf /\ o.metadata.raised THEN Failed("extract_metadata", "Exception")
        ELSE IF is_pdf /\ o.pages = "raise" THEN Failed("convert_to_images", "Exception")
        ELSE IF o.ocr.raised THEN Failed("extract_text", "Exception")
        ELSE IF ~path_is_image THEN Failed("calculate_ela", "UnidentifiedImageError")
        ELSE IF o.ela.raised THEN Failed("calculate_ela", "Exception")
        ELSE IF o.dl.raised THEN Failed("sliding_window_inference", "Exception")
        ELSE IF fused.status = "raised" THEN Failed("calculate_final_score", fused.error)
        ELSE Analysis(FALSE, "", "", o.metadata.value, o.ocr.value, layout,
                      o.ela.value, o.dl.value, fused)

\* Line 291: classification != "Authentic" or
\* (pdf_metadata.is_suspicious if pdf_metadata else False).
is_fraud(classification, pdf_metadata) ==
    classification # "Authentic"
        \/ (IF ~pdf_metadata.none THEN pdf_metadata.is_suspicious ELSE FALSE)

\* Lines 284-298: the FraudResult of document doc.
FraudResult(file, doc, v, entities, explained) ==
    [doc |-> doc,
     filename |-> file.filename,
     final_score |-> v.final_score,
     classification |-> v.classification,
     ela_score |-> Round4(v.ela_score),
     layout_score |-> Round4(v.layout_score),
     dl_score |-> Round4(v.dl_score),
     is_fraud |-> is_fraud(v.classification, v.pdf_metadata),
     ocr_data |-> v.ocr_results,
     extracted_entities |-> entities,
     pdf_metadata |-> v.pdf_metadata,
     ai_explanation |-> explained]

Lists(res, ext, outcome, step, error) ==
    [results |-> res, extracted_docs_data |-> ext,
     outcome |-> outcome, step |-> step, error |-> error]

\* Lines 280-298, the try block after the fusion call: the entities are
\* extracted and appended to extracted_docs_data (line 282), then the
\* FraudResult is built, which calls generate_explanation when
\* dl_score > 0.2 (line 297), and is appended to results (line 284).
AppendDocument(file, doc, v, later, res, ext) ==
    LET ext1 == Append(ext, [doc |-> doc, entities |-> later.entities.value])
        explain == v.dl_score > 20000
    IN  IF later.entities.raised
        THEN Lists(res, ext, "failed", "entity_extractor.extract", "Exception")
        ELSE IF explain /\ later.explanation = "raise"
        THEN Lists(res, ext1, "failed", "generate_explanation", "Exception")
        ELSE Lists(Append(res, FraudResult(file, doc, v, later.entities.value, explain)),
                   ext1, "appended", "", "")

\* Mutant of ExceptContinue: the failed document is kept, as an empty result.
ExceptContinue_keeps_result(doc, v, res, ext) ==
    Lists(Append(res, [doc |-> doc, filename |-> "", final_score |-> 0,
                       classification |-> "", ela_score |-> 0, layout_score |-> 0,
                       dl_score |-> 0, is_fraud |-> FALSE,
                       ocr_data |-> [none |-> FALSE, items |-> <<>>],
                       extracted_entities |-> [person_name |-> NullStr,
                                               address |-> NullStr, date |-> NullStr],
                       pdf_metadata |-> NoMetadata, ai_explanation |-> FALSE]),
          ext, "failed", v.step, v.error)

\* Lines 299-301, `except Exception as e: print(...); continue`: both lists
\* are left as they are and the loop goes on.
ExceptContinue(doc, v, res, ext) == Lists(res, ext, "failed", v.step, v.error)

LogEntry(doc, r) == [doc |-> doc, outcome |-> r.outcome, step |-> r.step, error |-> r.error]

\* Mutant of NotEnoughDocuments: the placeholder reports a valid, fully
\* consistent pair.
NotEnoughDocuments_valid ==
    [consistency_score |-> 100, mismatches |-> <<>>, is_valid |-> TRUE]

\* The validation result of line 307.
NotEnoughDocuments ==
    [consistency_score |-> 0, mismatches |-> <<"Not enough valid documents">>,
     is_valid |-> FALSE]

\* The most files in one sampled request.
MaxFiles == 3

FileSamples == [filename : {"doc"}, extension : {".jpg", ".pdf", ".txt"}]

InitBatch ==
    /\ files \in UNION {[1..n -> FileSamples] : n \in 0..MaxFiles}
    /\ file_idx = 1
    /\ results = <<>>
    /\ extracted_docs_data = <<>>
    /\ batch_log = <<>>
    /\ kyc_calls = <<>>
    /\ batch_response = NoResponse
    /\ ela_score = 0 /\ layout_score = 0 /\ dl_score = PyNone /\ fuse_out = NoCall
    /\ ocr_results = [none |-> TRUE, items |-> <<>>]
    /\ layout_out = NoAnalysis
    /\ RestIdle

\* Lines 238-239: fewer than two files are refused with status 400.
BatchReject ==
    /\ batch_response.status = 0
    /\ Len(files) < 2
    /\ batch_response' = [NoResponse EXCEPT !.status = 400]
    /\ UNCHANGED <<files, file_idx, results, extracted_docs_data, batch_log, kyc_calls>>
    /\ UNCHANGED <<fusion_vars, layout_vars, rest_vars>>

\* Lines 244-301: one iteration of `for file in files`.
BatchProcessFile ==
    /\ batch_response.status = 0
    /\ Len(files) >= 2
    /\ file_idx \in 1..Len(files)
    /\ LET file == files[file_idx]
           Update(r) ==
                /\ results' = r.results
                /\ extracted_docs_data' = r.extracted_docs_data
                /\ batch_log' = Append(batch_log, LogEntry(file_idx, r))
       IN  IF file.extension \notin SupportedExtensions
           THEN Update(Lists(results, extracted_docs_data, "skipped", "extension", ""))
           ELSE \E o \in Outcomes(file) :
                    LET v == VisualAnalysis(file, o)
                    IN  IF v.raised
                        THEN Update(ExceptContinue(file_idx, v, results,
                                                   extracted_docs_data))
                        ELSE \E later \in LaterOutcomes :
                                Update(AppendDocument(file, file_idx, v, later,
                                                      results, extracted_docs_data))
    /\ file_idx' = file_idx + 1
    /\ UNCHANGED <<files, kyc_calls, batch_response>>
    /\ UNCHANGED <<fusion_vars, layout_vars, rest_vars>>

\* Lines 303-312: the cross-validation of the first two entries of
\* extracted_docs_data, and the response.
BatchValidate ==
    /\ batch_response.status = 0
    /\ Len(files) >= 2
    /\ file_idx = Len(files) + 1
    /\ IF Len(extracted_docs_data) >= 2
       THEN LET a == extracted_docs_data[1].entities
                b == extracted_docs_data[2].entities
            IN  /\ kyc_calls' = Append(kyc_calls, [a |-> a, b |-> b])
                /\ batch_response' = [status |-> 200, results |-> results,
                                      kyc_validation |-> kyc_validate(a, b)]
       ELSE /\ kyc_calls' = kyc_calls
            /\ batch_response' = [status |-> 200, results |-> results,
                                  kyc_validation |-> NotEnoughDocuments]
    /\ UNCHANGED <<files, file_idx, results, extracted_docs_data, batch_log>>
    /\ UNCHANGED <<fusion_vars, layout_vars, rest_vars>>

NextBatch == BatchReject \/ BatchProcessFile \/ BatchValidate

SpecBatch == InitBatch /\ [][NextBatch]_vars

---------------------------------------------------------------------------
(* Claims about POST /analyze-batch, checked under SpecBatch *)

\* The documents (indices of files) of a list of results or of entity sets.
DocsOf(list) == [i \in 1..Len(list) |-> list[i].doc]

InList(doc, list) == \E i \in 1..Len(list) : list[i].doc = doc

NoDocumentSucceeds ==
    /\ results = <<>>
    /\ extracted_docs_data = <<>>
    /\ kyc_calls = <<>>
    /\ \A i \in 1..Len(batch_log) : batch_log[i].outcome # "appended"

\* The documents that were processed successfully.
Successes == {i \in 1..Len(batch_log) : batch_log[i].outcome = "appended"}

\* C11: a response sent when fewer than two documents were processed
\* successfully carries consistency_score 0, is_valid false and the single
\* mismatch 'Not enough valid documents'; the validator has not been called;
\* the response carries the results list, which holds exactly the documents
\* that succeeded.
C11_NotEnoughValidDocuments ==
    (batch_response.status = 200 /\ Cardinality(Successes) < 2) =>
        /\ batch_response.kyc_validation.consistency_score = 0
        /\ batch_response.kyc_validation.is_valid = FALSE
        /\ batch_response.kyc_validation.mismatches = <<"Not enough valid documents">>
        /\ kyc_calls = <<>>
        /\ batch_response.results = results
        /\ {results[i].doc : i \in 1..Len(results)} = Successes

\* C11 witness: three supported files were submitted, none was processed
\* successfully, and the response was sent without a call of the validator.
C11_Witness ==
    /\ batch_response.status = 200
    /\ Len(files) = 3
    /\ \A i \in 1..3 : files[i].extension \in SupportedExtensions
    /\ Cardinality(Successes) = 0
    /\ kyc_calls = <<>>
    /\ batch_response.kyc_validation.mismatches = <<"Not enough valid documents">>

---------------------------------------------------------------------------
(* The consistency validator on its own: validate(a, b) and validate(b, a) *)

FusionIdle ==
    ela_score = 0 /\ layout_score = 0 /\ dl_score = PyNone /\ fuse_out = NoCall

LayoutIdle ==
    ocr_results = [none |-> TRUE, items |-> <<>>] /\ layout_out = NoAnalysis

\* The Extracted Entity Sets the validator is exercised on: names that are
\* equal up to case and blanks, one edit apart, or unrelated; null fields.
ValidatorSamples ==
    [person_name : {NullStr, Str(<<"a", "n", "n", "a">>),
                    Str(<<"A", "n", "n", "a", " ">>),
                    Str(<<"a", "n", "n", "a", "s">>), Str(<<"b", "o", "b">>)},
     address     : {NullStr, Str(<<"1", " ", "r", "d">>), Str(<<"9", " ", "s", "t">>)},
     date        : {NullStr, Str(<<"1", "2">>)}]

InitValidator ==
    /\ entities_a \in ValidatorSamples
    /\ entities_b \in ValidatorSamples
    /\ validation_ab = NotValidated
    /\ validation_ba = NotValidated
    /\ FusionIdle /\ LayoutIdle /\ BatchIdle /\ ElaIdle /\ ApiIdle

\* kyc_validator.validate(entities_a, entities_b).
Validate ==
    /\ validation_ab = NotValidated
    /\ validation_ab' = Validated(kyc_validate(entities_a, entities_b))
    /\ UNCHANGED <<entities_a, entities_b, validation_ba>>
    /\ UNCHANGED non_kyc_vars

\* kyc_validator.validate(entities_b, entities_a): the same two documents
\* submitted in the other order.
ValidateSwapped ==
    /\ validation_ba = NotValidated
    /\ validation_ba' = Validated(kyc_validate(entities_b, entities_a))
    /\ UNCHANGED <<entities_a, entities_b, validation_ab>>
    /\ UNCHANGED non_kyc_vars

NextValidator == Validate \/ ValidateSwapped

SpecValidator == InitValidator /\ [][NextValidator]_vars

\* The field names among the mismatches of a Validation Result.
MismatchedFields(v) ==
    {v.mismatches[i] : i \in 1..Len(v.mismatches)}
        \cap {EntityFields[i] : i \in 1..Len(EntityFields)}

\* C16: validate(a, b) and validate(b, a) report the same consistency score,
\* the same set of mismatched field names and the same is_valid.
C16_ValidatorSymmetric ==
    (validation_ab.status = "returned" /\ validation_ba.status = "returned") =>
        /\ validation_ab.value.consistency_score = validation_ba.value.consistency_score
        /\ MismatchedFields(validation_ab.value) = MismatchedFields(validation_ba.value)
        /\ validation_ab.value.is_valid = validation_ba.value.is_valid

\* C16 witness: both orders were validated for two different entity sets
\* whose names are one edit apart (4 and 5 characters) and whose addresses
\* differ: one of two comparable fields is a mismatch.
C16_Witness ==
    /\ validation_ab.status = "returned" /\ validation_ba.status = "returned"
    /\ entities_a.person_name = Str(<<"a", "n", "n", "a">>)
    /\ entities_b.person_name = Str(<<"a", "n", "n", "a", "s">>)
    /\ validation_ab.value.consistency_score = 50
    /\ MismatchedFields(validation_ab.value) = {"address"}

---------------------------------------------------------------------------
(* fraud_detector.py: calculate_ela, called by concurrent workers.          *)
(* Worker w analyses image w.  Every call uses the same relative path       *)
(* "temp_ela.jpg" (line 12).  The file system is the POSIX one: a path      *)
(* names an inode, saving to an existing path rewrites its inode in place,  *)
(* removing a path leaves an open inode readable.  PIL opens an image       *)
(* lazily: Image.open reads the header and keeps the file open, the pixel   *)
(* data is read when the image is first used (line 20).                     *)

\* The image worker w was called with.
ImageOf(w) == w

\* An exception leaves calculate_ela: there is no try/finally, so nothing
\* after the raising statement runs.
ElaRaise(w, error) ==
    /\ ela_pc' = [ela_pc EXCEPT ![w] = "exited"]
    /\ ela_out' = [ela_out EXCEPT ![w] = [status |-> "raised", error |-> error,
                                          original |-> 0, resaved |-> 0]]

ElaGoto(w, pc) == ela_pc' = [ela_pc EXCEPT ![w] = pc]

InitEla ==
    /\ ela_pc = [w \in Workers |-> "call"]
    /\ ela_handle = [w \in Workers |-> NoHandle]
    /\ ela_out = [w \in Workers |-> NoEla]
    /\ fs_path = 0
    /\ fs_inodes = <<>>
    /\ FusionIdle /\ LayoutIdle /\ BatchIdle /\ KycIdle /\ ApiIdle

\* Line 13: original = Image.open(image_path).convert('RGB').
ElaOpen(w) ==
    /\ ela_pc[w] = "call"
    /\ \/ ElaGoto(w, "save") /\ UNCHANGED ela_out
       \/ ElaRaise(w, "UnidentifiedImageError")
    /\ UNCHANGED <<ela_handle, fs_path, fs_inodes>>
    /\ UNCHANGED non_ela_vars

\* Line 16: original.save(temp_path, 'JPEG', quality=quality).
ElaSave(w) ==
    /\ ela_pc[w] = "save"
    /\ IF fs_path = 0
       THEN /\ fs_inodes' = Append(fs_inodes, ImageOf(w))
            /\ fs_path' = Len(fs_inodes) + 1
       ELSE /\ fs_inodes' = [fs_inodes EXCEPT ![fs_path] = ImageOf(w)]
            /\ fs_path' = fs_path
    /\ ElaGoto(w, "reopen")
    /\ UNCHANGED <<ela_handle, ela_out>>
    /\ UNCHANGED non_ela_vars

\* Line 17: resaved = Image.open(temp_path).
ElaReopen(w) ==
    /\ ela_pc[w] = "reopen"
    /\ \/ /\ fs_path = 0
          /\ ElaRaise(w, "FileNotFoundError")
          /\ UNCHANGED ela_handle
       \/ /\ fs_path # 0
          /\ ela_handle' = [ela_handle EXCEPT
                                ![w] = [inode |-> fs_path, header |-> fs_inodes[fs_path]]]
          /\ ElaGoto(w, "difference")
          /\ UNCHANGED ela_out
       \/ /\ fs_path # 0
          /\ ElaRaise(w, "OSError")
          /\ UNCHANGED ela_handle
    /\ UNCHANGED <<fs_path, fs_inodes>>
    /\ UNCHANGED non_ela_vars

\* Lines 20-29: the enhanced difference of the original and the pixel data
\* read from the scratch file.
ElaResult(w, content) ==
    [status |-> "pending", error |-> "", original |-> ImageOf(w), resaved |-> content]

\* Lines 20-29: ImageChops.difference loads the pixel data of resaved from
\* the inode it has open, then the extrema and the enhancement.  When the
\* inode was rewritten since its header was read, the decoder reads the new
\* content or fails on data that does not fit the header.
ElaDifference(w) ==
    /\ ela_pc[w] = "difference"
    /\ LET content == fs_inodes[ela_handle[w].inode]
       IN  \/ /\ ela_out' = [ela_out EXCEPT ![w] = ElaResult(w, content)]
              /\ ElaGoto(w, "variance")
           \/ /\ content # ela_handle[w].header
              /\ ElaRaise(w, "OSError: broken data stream")
           \/ ElaRaise(w, "MemoryError")
    /\ ela_handle' = [ela_handle EXCEPT ![w] = NoHandle]
    /\ UNCHANGED <<fs_path, fs_inodes>>
    /\ UNCHANGED non_ela_vars

\* Lines 33-34: anomaly_score = float(np.var(np.array(ela_image)) / 100.0).
ElaVariance(w) ==
    /\ ela_pc[w] = "variance"
    /\ \/ ElaGoto(w, "exists") /\ UNCHANGED ela_out
       \/ ElaRaise(w, "MemoryError")
    /\ UNCHANGED <<ela_handle, fs_path, fs_inodes>>
    /\ UNCHANGED non_ela_vars

\* Lines 37 and 40: os.path.exists(temp_path); the call returns when the
\* path names no file.
ElaExists(w) ==
    /\ ela_pc[w] = "exists"
    /\ IF fs_path # 0
       THEN ElaGoto(w, "remove") /\ UNCHANGED ela_out
       ELSE /\ ElaGoto(w, "exited")
            /\ ela_out' = [ela_out EXCEPT ![w].status = "returned"]
    /\ UNCHANGED <<ela_handle, fs_path, fs_inodes>>
    /\ UNCHANGED non_ela_vars

\* Lines 38 and 40: os.remove(temp_path) and the return.
ElaRemove(w) ==
    /\ ela_pc[w] = "remove"
    /\ IF fs_path # 0
       THEN /\ fs_path' = 0
            /\ ElaGoto(w, "exited")
            /\ ela_out' = [ela_out EXCEPT ![w].status = "returned"]
       ELSE /\ fs_path' = fs_path
            /\ ElaRaise(w, "FileNotFoundError")
    /\ UNCHANGED <<ela_handle, fs_inodes>>
    /\ UNCHANGED non_ela_vars

NextEla ==
    \E w \in Workers :
        \/ ElaOpen(w)
        \/ ElaSave(w)
        \/ ElaReopen(w)
        \/ ElaDifference(w)
        \/ ElaVariance(w)
        \/ ElaExists(w)
        \/ ElaRemove(w)

SpecEla == InitEla /\ [][NextEla]_vars

---------------------------------------------------------------------------
(* Claims about calculate_ela, checked under SpecEla *)

Exited(w) == ela_pc[w] = "exited"

\* The call of worker w ran with no other call started.
RanAlone(w) == \A v \in Workers \ {w} : ela_pc[v] = "call"

\* C12: when a call of calculate_ela that ran on its own has exited, by
\* return or by an exception raised at any statement, the scratch file
\* "temp_ela.jpg" does not exist.
C12_ScratchRemovedOnExit ==
    \A w \in Workers : (Exited(w) /\ RanAlone(w)) => fs_path = 0

\* C13: concurrent calls are independent: a call that returns has compared
\* its image with the re-encoding of that same image, as it does when it
\* runs alone, and no call fails on the scratch file because of another
\* call (a missing file, or a file rewritten while it was being read).
C13_ElaIndependent ==
    \A w \in Workers :
        /\ ela_out[w].status = "returned" => ela_out[w].resaved = ImageOf(w)
        /\ ela_out[w].status = "raised" =>
                ela_out[w].error \notin {"FileNotFoundError", "OSError: broken data stream"}

---------------------------------------------------------------------------
(* main.py: POST /analyze and POST /upload; core/security.py:              *)
(* get_client_company, the dependency of /upload.  Requests run             *)
(* concurrently, each with a database session of its own (get_db); the      *)
(* statements of a request that touch the database are its steps.           *)

\* The concurrent requests the model follows.
NumRequests == 2

\* The largest balance Test Corp starts with (init_db gives it 100).
MaxCredits == 2

\* The api_key of Test Corp (main.py, line 34).
TestKey == "test_key_123"

\* The X-API-Key header: absent, unknown, or the key of Test Corp.
KeySamples == {"", "wrong_key", TestKey}

NoCompany == [none |-> TRUE, credits_remaining |-> 0]

NoReply == [status |-> 0, detail |-> "", body |-> "none"]

\* What became of the analysis of the document of a request: nothing yet,
\* or it failed at a step with an exception, or it succeeded.
NoLog == [outcome |-> "none", step |-> "", error |-> ""]

\* raise HTTPException(status_code, detail).
HTTPError(status, detail) == [status |-> status, detail |-> detail, body |-> "detail"]

Request(endpoint, key, file) ==
    [endpoint |-> endpoint, api_key |-> key, file |-> file,
     pc |-> IF endpoint = "/upload" THEN "get_client_company" ELSE "handler",
     company |-> NoCompany, admitted |-> FALSE, log |-> NoLog,
     response |-> NoReply]

\* The sampled requests.  A request refused for its key never reaches the
\* handler, so one file is enough for it.
RequestSamples ==
    {Request("/analyze", "", f) : f \in FileSamples}
        \cup {Request("/upload", TestKey, f) : f \in FileSamples}
        \cup {Request("/upload", k, [filename |-> "doc", extension |-> ".jpg"]) :
                    k \in KeySamples \ {TestKey}}

InitApi ==
    /\ requests \in [1..NumRequests -> RequestSamples]
    /\ credits_initial \in 0..MaxCredits
    /\ credits_remaining = credits_initial
    /\ scan_records = <<>>
    /\ FusionIdle /\ LayoutIdle /\ BatchIdle /\ KycIdle /\ ElaIdle

Reply(r, response) ==
    requests' = [requests EXCEPT ![r].pc = "done", ![r].response = response]

\* security.py, lines 15-27: a missing key and a key of no company are
\* refused with 401; else the company row is loaded into the session of the
\* request.
QueryCompany(r) ==
    /\ requests[r].pc = "get_client_company"
    /\ IF requests[r].api_key = ""
       THEN Reply(r, HTTPError(401, "API Key missing"))
       ELSE IF requests[r].api_key # TestKey
       THEN Reply(r, HTTPError(401, "Invalid API Key"))
       ELSE requests' = [requests EXCEPT
                            ![r].pc = "deduct",
                            ![r].company = [none |-> FALSE,
                                            credits_remaining |-> credits_remaining]]
    /\ UNCHANGED <<credits_remaining, credits_initial, scan_records>>
    /\ UNCHANGED non_api_vars

\* Mutant of InsufficientCredits: only a negative balance is refused.
InsufficientCredits_negative_only(company) == company.credits_remaining < 0

\* security.py, line 29: company.credits_remaining <= 0.
InsufficientCredits(company) == company.credits_remaining <= 0

\* security.py, lines 29-40: the balance loaded by the query is checked; a
\* request that passes is admitted: company.credits_remaining -= 1 computes
\* the new balance from the loaded one and db.commit() writes that value to
\* the row.
DeductCredit(r) ==
    /\ requests[r].pc = "deduct"
    /\ IF InsufficientCredits(requests[r].company)
       THEN /\ Reply(r, HTTPError(402, "Insufficient credits. Please top up your account."))
            /\ UNCHANGED credits_remaining
       ELSE /\ credits_remaining' = requests[r].company.credits_remaining - 1
            /\ requests' = [requests EXCEPT
                                ![r].pc = "handler",
                                ![r].admitted = TRUE,
                                ![r].company.credits_remaining = credits_remaining']
    /\ UNCHANGED <<credits_initial, scan_records>>
    /\ UNCHANGED non_api_vars

\* What the collaborators do for the document of one request, up to the
\* fusion call: as for a document of a batch, with one ELA score and one DL
\* score (above 0.2, so that an explanation is asked for).
SingleOutcomes(file) ==
    [metadata : IF file.extension = ".pdf" THEN MetadataOutcomes
                ELSE {[raised |-> FALSE, value |-> NoMetadata]},
     pages    : IF file.extension = ".pdf" THEN PagesOutcomes ELSE {"pages"},
     ocr      : OcrOutcomes,
     ela      : ScoreOutcomes(150000, 150000),
     dl       : ScoreOutcomes(90000, 90000)]

\* Lines 98-124 and 167-192, the try block up to and including the fusion
\* call: as in the batch endpoint, but a PDF that converts to no page raises
\* HTTPException (lines 105-106 and 174-175).
SingleAnalysis(file, o) ==
    IF file.extension = ".pdf" /\ ~o.metadata.raised /\ o.pages = "empty"
    THEN Failed("convert_to_images", "HTTPException")
    ELSE VisualAnalysis(file, o)

\* Mutant of ExceptHTTP500: the handler answers a failed analysis with a
\* result built from the signals it has.
ExceptHTTP500_partial_result(v) ==
    [status |-> 200, detail |-> "", body |-> "FraudResult"]

\* Lines 144-147 and 221-224: `except Exception as e` answers with
\* HTTPException(status_code=500, detail=str(e)); detail is the text of the
\* exception that was raised.
ExceptHTTP500(v) == HTTPError(500, v.error)

\* What the handler does after the fusion call (lines 127-143 and 195-220):
\* the entities are extracted; /upload adds and commits the ScanRecord; the
\* FraudResult is built, which calls generate_explanation when
\* dl_score > 0.2.
AfterFusion(endpoint, v, later, records) ==
    LET logged == IF endpoint = "/upload"
                  THEN Append(records, [confidence_score |-> v.final_score,
                                        classification_label |-> v.classification])
                  ELSE records
        Raise(step) ==
            [outcome |-> "failed", step |-> step, error |-> "Exception"]
    IN  IF later.entities.raised
        THEN [response |-> ExceptHTTP500(Failed("entity_extractor.extract", "Exception")),
              log |-> Raise("entity_extractor.extract"),
              scan_records |-> records]
        ELSE IF v.dl_score > 20000 /\ later.explanation = "raise"
        THEN [response |-> ExceptHTTP500(Failed("generate_explanation", "Exception")),
              log |-> Raise("generate_explanation"),
              scan_records |-> logged]
        ELSE [response |-> [status |-> 200, detail |-> "", body |-> "FraudResult"],
              log |-> [outcome |-> "succeeded", step |-> "", error |-> ""],
              scan_records |-> logged]

\* The handler of /analyze (lines 86-147) and of /upload (lines 155-224).
HandleDocument(r) ==
    /\ requests[r].pc = "handler"
    /\ LET file == requests[r].file
       IN  IF file.extension \notin SupportedExtensions
           THEN /\ Reply(r, HTTPError(400, "Only JPG, PNG, and PDF documents are supported."))
                /\ UNCHANGED scan_records
           ELSE \E o \in SingleOutcomes(file) :
                    LET v == SingleAnalysis(file, o)
                    IN  IF v.raised
                        THEN /\ requests' = [requests EXCEPT
                                    ![r].pc = "done",
                                    ![r].log = [outcome |-> "failed", step |-> v.step,
                                                error |-> v.error],
                                    ![r].response = ExceptHTTP500(v)]
                             /\ UNCHANGED scan_records
                        ELSE \E later \in LaterOutcomes :
                                LET a == AfterFusion(requests[r].endpoint, v, later,
                                                     scan_records)
                                IN  /\ requests' = [requests EXCEPT
                                            ![r].pc = "done",
                                            ![r].log = a.log,
                                            ![r].response = a.response]
                                    /\ scan_records' = a.scan_records
    /\ UNCHANGED <<credits_remaining, credits_initial>>
    /\ UNCHANGED non_api_vars

NextApi ==
    \E r \in 1..NumRequests :
        \/ QueryCompany(r)
        \/ DeductCredit(r)
        \/ HandleDocument(r)

SpecApi == InitApi /\ [][NextApi]_vars

---------------------------------------------------------------------------
(* Claims about POST /analyze and POST /upload, checked under SpecApi *)

Answered(r) == requests[r].pc = "done"

\* OCR/layout, ELA, DL inference and fusion of the document of request r
\* have all completed: the analysis succeeded, or failed after the fusion
\* call.
SignalsComputed(r) ==
    \/ requests[r].log.outcome = "succeeded"
    \/ /\ requests[r].log.outcome = "failed"
       /\ requests[r].log.step \in {"entity_extractor.extract", "generate_explanation"}

\* C14: a request to /analyze or /upload whose analysis failed before all
\* of OCR/layout, ELA, DL inference and fusion had completed is answered
\* with status 500 and the text of the exception as detail, not with a
\* FraudResult; a FraudResult is the answer only of an analysis that
\* succeeded; there are no more ScanRecords than /upload requests whose
\* signals were all computed.
C14_NoResultWithoutSignals ==
    /\ \A r \in 1..NumRequests :
            /\ (Answered(r) /\ requests[r].log.outcome = "failed"
                    /\ ~SignalsComputed(r)) =>
                    /\ requests[r].response.status = 500
                    /\ requests[r].response.body = "detail"
                    /\ requests[r].response.detail = requests[r].log.error
            /\ requests[r].response.body = "FraudResult" =>
                    requests[r].log.outcome = "succeeded"
    /\ Len(scan_records) <=
            Cardinality({r \in 1..NumRequests :
                            requests[r].endpoint = "/upload" /\ SignalsComputed(r)})

\* C14 witness: a request to /analyze failed in calculate_ela and a request
\* to /upload, admitted past the credit check, failed at the fusion call;
\* both were answered with status 500 and no ScanRecord was written.
C14_Witness ==
    /\ requests[1].endpoint = "/analyze" /\ Answered(1)
    /\ requests[1].log.step = "calculate_ela"
    /\ requests[1].response.status = 500
    /\ requests[2].endpoint = "/upload" /\ Answered(2) /\ requests[2].admitted
    /\ requests[2].log.step = "calculate_final_score"
    /\ requests[2].response = HTTPError(500, "TypeError")
    /\ scan_records = <<>>

\* No request is ever answered with a FraudResult, and no ScanRecord is ever
\* written: the fusion call of lines 124 and 192 raises TypeError.
NoRequestSucceeds ==
    /\ scan_records = <<>>
    /\ \A r \in 1..NumRequests :
            /\ requests[r].response.body # "FraudResult"
            /\ requests[r].log.outcome # "succeeded"

\* Request r is refused by get_client_company in this step.
Refused(r) ==
    /\ requests[r].pc # "done"
    /\ requests'[r].pc = "done"
    /\ requests'[r].response.status \in {401, 402}

\* C19: the balance of the company is never negative, whatever the
\* interleaving of the concurrent /upload requests; an answered /upload
\* request with a missing or unknown key was refused with 401, and one that
\* found a balance of 0 or less was refused with 402; a step that refuses a
\* request with 401 or 402 leaves the balance as it was.
C19_CreditsNeverNegative ==
    /\ [](/\ credits_remaining >= 0
          /\ \A r \in 1..NumRequests :
                (requests[r].endpoint = "/upload" /\ Answered(r)) =>
                    /\ requests[r].api_key # TestKey =>
                            requests[r].response.status = 401
                    /\ (~requests[r].company.none /\ ~requests[r].admitted) =>
                            /\ requests[r].company.credits_remaining <= 0
                            /\ requests[r].response.status = 402)
    /\ [][\A r \in 1..NumRequests :
                Refused(r) => credits_remaining' = credits_remaining]_vars

\* C19 witness: with a starting balance of 1, the first request was admitted
\* and took the last credit, and the second, with the same key, found the
\* balance 0 and was refused with 402; the balance is 0.
C19_Witness ==
    /\ credits_initial = 1
    /\ requests[1].api_key = TestKey /\ requests[1].admitted
    /\ requests[2].api_key = TestKey /\ Answered(2) /\ ~requests[2].admitted
    /\ requests[2].company.credits_remaining = 0
    /\ requests[2].response.status = 402
    /\ credits_remaining = 0

\* The requests admitted past the credit check.
Admitted == {r \in 1..NumRequests : requests[r].admitted}

\* C20: the number of admitted requests plus the balance is the starting
\* balance, and there are no more ScanRecords than credits deducted.
C20_OneCreditPerAdmission ==
    /\ Cardinality(Admitted) + credits_remaining = credits_initial
    /\ Len(scan_records) <= credits_initial - credits_remaining

===========================================================================
